---- MODULE Spec2Model ----
(***************************************************************************)
(* MediGenie healthcare chatbot: the App controller (message store, busy   *)
(* flag, submissions, option clicks, geolocation lookup, New chat), the    *)
(* ChatMessage option buttons, the ChatInput image state with its object   *)
(* URLs, the GeminiChatService wrapper, and the pure functions             *)
(* cleanAndParseJson, parseBotResponse and FormattedText.                  *)
(*                                                                         *)
(* JavaScript runs one macrotask at a time; the continuation of an await   *)
(* on an already settled promise runs as a microtask of the same           *)
(* macrotask.  An action below is therefore one macrotask (a UI event, a   *)
(* FileReader event, a geolocation callback, the arrival of the model's    *)
(* stream) together with the microtasks it triggers.  React re-renders     *)
(* between macrotasks, so an event handler reached from the rendered UI    *)
(* reads the current state; a callback that was captured earlier (the      *)
(* geolocation callbacks) keeps the closure of the render it was created   *)
(* in.                                                                     *)
(***************************************************************************)
EXTENDS Integers, Sequences, FiniteSets, TLC

VARIABLES
  messages,      \* useState<Message[]>: the message store
  isLoading,     \* useState(false): the busy flag
  isBotTyping,   \* useState(false): typing indicator
  chat,          \* geminiService.chat # null
  mounted,       \* the mount effect (useEffect -> initChat) has run
  geoSupported,  \* navigator.geolocation is defined in this browser
  tasks,         \* handleSendMessage invocations suspended at an await
  geo,           \* pending navigator.geolocation.getCurrentPosition requests
  geoCount,      \* number of geolocation requests started so far
  turns,         \* number of user operations that took effect so far
  lastEvent,     \* the handler run by the last step, its input and outcome
  chatInputImage, \* useState of ChatInput: the attached file and its preview
  objectURLs,    \* URLs made by URL.createObjectURL and not yet revoked
  urlCount,      \* number of URL.createObjectURL calls so far
  preReset,      \* history: which pending work began before the last New chat
  fn,            \* the pure function under examination ("" when none is)
  input,         \* the text it is given
  output         \* what it returned (NotCalled before the call)

\* the state of a function call examined on its own
callVars == <<fn, input, output>>

vars == <<messages, isLoading, isBotTyping, chat, mounted, geoSupported,
          tasks, geo, geoCount, turns, lastEvent, chatInputImage, objectURLs,
          urlCount, preReset, fn, input, output>>

----------------------------------------------------------------------------
(* Bounds *)

\* user operations (submissions, option selections, New chat confirmations,
\* file choices) that take effect in one run
MaxTurns == 3

----------------------------------------------------------------------------
(* String helpers: the JavaScript String methods the code uses *)

CharAt(s, i) == SubSeq(s, i, i)

IsSpace(c) == c \in {" ", "\t", "\n", "\r"}

RECURSIVE TrimStart(_)
TrimStart(s) ==
  IF Len(s) > 0 /\ IsSpace(CharAt(s, 1)) THEN TrimStart(SubSeq(s, 2, Len(s))) ELSE s

RECURSIVE TrimEnd(_)
TrimEnd(s) ==
  IF Len(s) > 0 /\ IsSpace(CharAt(s, Len(s))) THEN TrimEnd(SubSeq(s, 1, Len(s) - 1)) ELSE s

\* String.prototype.trim
Trim(s) == TrimEnd(TrimStart(s))

\* String.prototype.indexOf, 0-based, -1 when absent
IndexOf(s, sub) ==
  LET idx == {i \in 1..(Len(s) - Len(sub) + 1) : SubSeq(s, i, i + Len(sub) - 1) = sub}
  IN IF idx = {} THEN -1
     ELSE (CHOOSE i \in idx : \A j \in idx : i <= j) - 1

\* String.prototype.lastIndexOf, 0-based, -1 when absent
LastIndexOf(s, sub) ==
  LET idx == {i \in 1..(Len(s) - Len(sub) + 1) : SubSeq(s, i, i + Len(sub) - 1) = sub}
  IN IF idx = {} THEN -1
     ELSE (CHOOSE i \in idx : \A j \in idx : i >= j) - 1

\* String.prototype.includes
Includes(s, sub) == IndexOf(s, sub) # -1

\* String.prototype.substring(from, to), 0-based, end exclusive
Substring(s, from, to) == SubSeq(s, from + 1, to)

UpperChars == <<"A","B","C","D","E","F","G","H","I","J","K","L","M",
                "N","O","P","Q","R","S","T","U","V","W","X","Y","Z">>

LowerChars == <<"a","b","c","d","e","f","g","h","i","j","k","l","m",
                "n","o","p","q","r","s","t","u","v","w","x","y","z">>

LowerChar(c) ==
  IF \E k \in 1..26 : UpperChars[k] = c
  THEN LowerChars[CHOOSE k \in 1..26 : UpperChars[k] = c]
  ELSE c

RECURSIVE ToLowerCase(_)
\* String.prototype.toLowerCase
ToLowerCase(s) ==
  IF Len(s) = 0 THEN ""
  ELSE LowerChar(CharAt(s, 1)) \o ToLowerCase(SubSeq(s, 2, Len(s)))

----------------------------------------------------------------------------
(* Texts *)

GreetingText == "Hello! I'm MediGenie, your personal AI health companion. I'm here to provide clear, confident health guidance. How can I help you today?"

InitErrorText == "Failed to initialize the chat service. Please check your API key and refresh the page."

ErrorText == "Sorry, something went wrong. Please try again."

FacilityUserText == "Yes, help me find a facility."

LocatingText == "Got it. Finding your location..."

NoGeoText == "My browser doesn't support geolocation, so I cannot share my location."

ApologyText == "I'm sorry, I couldn't process that. Could you please try rephrasing?"

LocationMarker == "find a nearby medical facility"

FacilityMarker == "find a facility"

\* template literal of handleLocationRequest's success callback
LocationPrompt(latitude, longitude) ==
  "The user has shared their location. Latitude: " \o ToString(latitude)
    \o ", Longitude: " \o ToString(longitude)
    \o ". Please provide the final advice including nearby medical facilities."

\* variant: the prompt does not carry the error's message
ErrorPrompt_NoReason(message) ==
  "The user tried to share their location, but an error occurred. Please provide final advice without location suggestions and mention that location services failed."

\* template literal of handleLocationRequest's error callback
ErrorPrompt(message) ==
  "The user tried to share their location, but an error occurred: " \o message
    \o ". Please provide final advice without location suggestions and mention that location services failed."

----------------------------------------------------------------------------
(* Inputs: what the user types, what the browser reports, what the model   *)
(* streams back                                                            *)

\* what the textarea of the chat input holds when the user sends
ChatTexts == {"Hi", "  "}

\* position.coords of a successful geolocation (whole degrees)
Coords == {<<-33, 151>>}

\* GeolocationPositionError.message
GeoErrorMessages == {"User denied Geolocation"}

QuestionJson == "{\"question\": \"How long have you had this?\", \"options\": [\"Today\",\"A few days\",\"More than a week\"]}"

\* the fixed follow-up question of the system instruction
FollowUpJson == "{\"question\": \"I hope this initial guidance is helpful. Should I continue to monitor, or would you like me to help you find a nearby medical facility for a professional opinion?\", \"options\": [\"I'll follow the advice for now.\", \"Help me find a facility.\"]}"

\* a question that is not the follow-up; it offers a facility option and a
\* blank one
DecoyJson == "{\"question\": \"What would you like to do next?\", \"options\": [\"FIND A FACILITY near me\", \" \"]}"

\* a question object whose options array is empty
EmptyOptionsJson == "{\"question\": \"Anything else?\", \"options\": []}"

\* documents that are not a question with options to choose from
NumberOptionsJson == "{\"question\": \"How many days?\", \"options\": [1, 2]}"

TextOptionsJson == "{\"question\": \"How many days?\", \"options\": \"One\"}"

MissingOptionsJson == "{\"question\": \"How many days?\"}"

MissingQuestionJson == "{\"options\": [\"One\", \"Two\"]}"

NumberQuestionJson == "{\"question\": 5, \"options\": [\"One\", \"Two\"]}"

EmptyQuestionJson == "{\"question\": \"\", \"options\": [\"One\", \"Two\"]}"

OtherShapeJson == "{\"advice\": \"Rest\"}"

UnparsableJson == "{question: How many days?}"

AdviceText == "1. **Likely Condition:** This could be tension headache.\n2. **What to Do Now:** Rest and hydrate."

\* the chunk sequences (chunk.text of each chunk) a stream can deliver
Streams ==
  { <<FollowUpJson>>,
    <<"Sure. ", DecoyJson>>,
    <<EmptyOptionsJson>>,
    <<AdviceText>>,
    <<" ", "">> }

----------------------------------------------------------------------------
(* JavaScript values of a parsed JSON document *)

JSUndefined == [t |-> "undefined"]

JSString(s) == [t |-> "string", v |-> s]

\* an array of strings
JSArray(items) == [t |-> "array", elem |-> "string", v |-> items]

\* an array of numbers
JSNumberArray(items) == [t |-> "array", elem |-> "number", v |-> items]

JSNumber(n) == [t |-> "number", v |-> n]

JSObject(question, options) == [t |-> "object", question |-> question, options |-> options]

JSSyntaxError == [t |-> "SyntaxError"]

\* JSON.parse on the documents the streams above can contain; any other
\* argument is not a JSON document and throws SyntaxError
JSONParse(jsonString) ==
  CASE jsonString = QuestionJson ->
         JSObject(JSString("How long have you had this?"),
                  JSArray(<<"Today", "A few days", "More than a week">>))
    [] jsonString = FollowUpJson ->
         JSObject(JSString("I hope this initial guidance is helpful. Should I continue to monitor, or would you like me to help you find a nearby medical facility for a professional opinion?"),
                  JSArray(<<"I'll follow the advice for now.", "Help me find a facility.">>))
    [] jsonString = DecoyJson ->
         JSObject(JSString("What would you like to do next?"),
                  JSArray(<<"FIND A FACILITY near me", " ">>))
    [] jsonString = EmptyOptionsJson ->
         JSObject(JSString("Anything else?"), JSArray(<<>>))
    [] jsonString = NumberOptionsJson ->
         JSObject(JSString("How many days?"), JSNumberArray(<<1, 2>>))
    [] jsonString = TextOptionsJson ->
         JSObject(JSString("How many days?"), JSString("One"))
    [] jsonString = MissingOptionsJson ->
         JSObject(JSString("How many days?"), JSUndefined)
    [] jsonString = MissingQuestionJson ->
         JSObject(JSUndefined, JSArray(<<"One", "Two">>))
    [] jsonString = NumberQuestionJson ->
         JSObject(JSNumber(5), JSArray(<<"One", "Two">>))
    [] jsonString = EmptyQuestionJson ->
         JSObject(JSString(""), JSArray(<<"One", "Two">>))
    [] jsonString \in {OtherShapeJson, "{}"} ->
         JSObject(JSUndefined, JSUndefined)
    [] OTHER -> JSSyntaxError

\* null when the text holds no question object
NullJson == [t |-> "null"]

cleanAndParseJson(text) ==
  LET jsonStart == IndexOf(text, "{")
      jsonEnd == LastIndexOf(text, "}")
  IN IF jsonStart = -1 \/ jsonEnd = -1 \/ jsonEnd < jsonStart
     THEN NullJson
     ELSE LET jsonString == Substring(text, jsonStart, jsonEnd + 1)
              parsed == JSONParse(jsonString)
          IN IF parsed.t = "SyntaxError" THEN NullJson
             ELSE IF /\ parsed.question.t = "string"
                     /\ parsed.question.v # ""
                     /\ parsed.options.t = "array"
                  THEN parsed
                  ELSE NullJson

----------------------------------------------------------------------------
(* Object URLs and the image state of ChatInput *)

\* the string the next URL.createObjectURL call returns: unique per call
createObjectURL == "blob:" \o ToString(urlCount + 1)

\* URL.revokeObjectURL(url)
revokeObjectURL(url) == objectURLs' = objectURLs \ {url}

\* useState<{ file, preview } | null>(null): no image attached
NoImage == [file |-> FALSE, preview |-> ""]

\* { file, preview }
InputImage(preview) == [file |-> TRUE, preview |-> preview]

----------------------------------------------------------------------------
(* Messages (types.ts) *)

USER == "user"

BOT == "bot"

SYSTEM == "system"

NoOptions == [defined |-> FALSE, items |-> <<>>]

Options(items) == [defined |-> TRUE, items |-> items]

\* Message; a field the code leaves out is "" (imageUrl), NoOptions
\* (options) or FALSE (isQuestion).  Date.now() stamps are kept only in the
\* id the code later filters on (the locating message).
Message(id, role, text, imageUrl, options, isQuestion) ==
  [id |-> id, role |-> role, text |-> text, imageUrl |-> imageUrl,
   options |-> options, isQuestion |-> isQuestion]

GreetingMessage == Message("initial-greeting", BOT, GreetingText, "", NoOptions, FALSE)

InitErrorMessage == Message("init-error", SYSTEM, InitErrorText, "", NoOptions, FALSE)

\* userMessage of handleSendMessage
UserMessage(text, image) ==
  Message("user-now", USER, text, IF image THEN createObjectURL ELSE "", NoOptions, FALSE)

\* errorMessage of handleSendMessage's catch block
ErrorMessage == Message("system-now", SYSTEM, ErrorText, "", NoOptions, FALSE)

\* variant: a question is shown with the raw response text
BotResponse_RawText(responseText) ==
  LET parsedJson == cleanAndParseJson(responseText)
  IN IF parsedJson.t # "null"
     THEN Message("bot-now", BOT, responseText, "",
                  Options(parsedJson.options.v), TRUE)
     ELSE Message("bot-now", BOT, responseText, "", NoOptions, FALSE)

\* botResponse of handleSendMessage
BotResponse(responseText) ==
  LET parsedJson == cleanAndParseJson(responseText)
  IN IF parsedJson.t # "null"
     THEN Message("bot-now", BOT, parsedJson.question.v, "",
                  Options(parsedJson.options.v), TRUE)
     ELSE Message("bot-now", BOT, responseText, "", NoOptions, FALSE)

LocatingId(k) == "bot-locating-" \o ToString(k)

\* userMessage and locatingMessage of handleLocationRequest
FacilityUserMessage == Message("user-now", USER, FacilityUserText, "", NoOptions, FALSE)

LocatingMessage(k) == Message(LocatingId(k), BOT, LocatingText, "", NoOptions, FALSE)

\* variant: the locating message is not filtered out
RemoveId_KeepsAll(msgs, id) == msgs

\* variant: every assistant message is filtered out
RemoveId_AllBot(msgs, id) == SelectSeq(msgs, LAMBDA m : m.role # BOT)

\* Array.prototype.filter(m => m.id !== id)
RemoveId(msgs, id) == SelectSeq(msgs, LAMBDA m : m.id # id)

----------------------------------------------------------------------------
(* GeminiChatService.streamResponse after the stream has been read *)

RECURSIVE Accumulate(_)
\* the for-await loop: responseText += chunkText for every truthy chunk.text
Accumulate(chunks) ==
  IF chunks = <<>> THEN ""
  ELSE (IF Head(chunks) # "" THEN Head(chunks) ELSE "") \o Accumulate(Tail(chunks))

streamResponse(chunks) ==
  LET responseText == Accumulate(chunks)
  IN IF Trim(responseText) = "" THEN ApologyText ELSE responseText

----------------------------------------------------------------------------
(* State *)

\* a handleSendMessage invocation suspended at `await fileToBase64(image)`
\* (pc = "encoding") or at `await geminiService.streamResponse(...)` with
\* the request sent (pc = "streaming"); locatingId names the geolocation
\* request whose callback made the call ("" for none)
Task(pc, text, image, isHidden, locatingId, imageUrl) ==
  [pc |-> pc, text |-> text, image |-> image, isHidden |-> isHidden,
   locatingId |-> locatingId, imageUrl |-> imageUrl]

\* a pending getCurrentPosition request: the id of its locatingMessage and
\* the isLoading captured by the handleSendMessage its callbacks close over
GeoRequest(id, closureIsLoading) == [id |-> id, closureIsLoading |-> closureIsLoading]

RemoveAt(seq, i) == SubSeq(seq, 1, i - 1) \o SubSeq(seq, i + 1, Len(seq))

\* the model requests that are outstanding
Outstanding == {i \in DOMAIN tasks : tasks[i].pc = "streaming"}

\* what the last step was: the handler that ran, the branch it took, how
\* it ended and the strings it was given
Event(handler, route, outcome, arg) ==
  [handler |-> handler, route |-> route, outcome |-> outcome, arg |-> arg]

\* history of a step that may have suspended one more handleSendMessage
\* call: preReset.tasks[i] tells whether tasks[i] stems from before the last
\* confirmed New chat, preReset.geo holds the ids of the geolocation
\* requests started before it.  old is the flag of the new call, settled
\* the geolocation requests whose callback has run in this step.
Suspended(old, settled) ==
  preReset' = [tasks |-> IF Len(tasks') > Len(tasks)
                         THEN Append(preReset.tasks, old)
                         ELSE preReset.tasks,
               geo |-> preReset.geo \ settled]

\* history of a step in which the suspended call tasks[i] has returned
Returned(i) == preReset' = [preReset EXCEPT !.tasks = RemoveAt(@, i)]

\* history of a confirmed New chat: everything pending is from before it
Reset ==
  preReset' = [tasks |-> [i \in DOMAIN tasks |-> TRUE],
               geo |-> {g.id : g \in geo}]

\* the value of output before the function has been called
NotCalled == [t |-> "not called"]

\* the App and ChatInput components after construction
AppInit ==
  /\ messages = <<>>
  /\ isLoading = FALSE
  /\ isBotTyping = FALSE
  /\ chat = FALSE
  /\ mounted = FALSE
  /\ tasks = <<>>
  /\ geo = {}
  /\ geoCount = 0
  /\ turns = 0
  /\ lastEvent = Event("construct", "", "", <<>>)
  /\ chatInputImage = NoImage
  /\ objectURLs = {}
  /\ urlCount = 0
  /\ preReset = [tasks |-> <<>>, geo |-> {}]

Init ==
  /\ AppInit
  /\ geoSupported \in BOOLEAN
  /\ fn = ""
  /\ input = ""
  /\ output = NotCalled

----------------------------------------------------------------------------
(* initChat *)

\* variant: the greeting is appended to the old store instead of replacing it
initChat_Appends(ok) ==
  /\ chat' = (chat \/ ok)
  /\ messages' = Append(messages, IF ok THEN GreetingMessage ELSE InitErrorMessage)
  /\ isLoading' = FALSE
  /\ UNCHANGED <<isBotTyping, geoSupported, tasks, geo, geoCount,
                 chatInputImage, objectURLs, urlCount>>

\* setIsLoading(true); await initializeChat(); setMessages([...]);
\* finally setIsLoading(false).  initializeChat has no await of its own, so
\* the whole function completes within the macrotask that called it.
initChat(ok) ==
  /\ chat' = (chat \/ ok)
  /\ messages' = IF ok THEN <<GreetingMessage>> ELSE <<InitErrorMessage>>
  /\ isLoading' = FALSE
  /\ UNCHANGED <<isBotTyping, geoSupported, tasks, geo, geoCount,
                 chatInputImage, objectURLs, urlCount>>

\* useEffect(() => { initChat(); }, [initChat])
Mount ==
  /\ ~mounted
  /\ mounted' = TRUE
  /\ \E ok \in BOOLEAN :
       /\ initChat(ok)
       /\ lastEvent' = Event("mount", "", IF ok THEN "ok" ELSE "failed", <<>>)
  /\ UNCHANGED <<turns, preReset, callVars>>

\* handleNewChat: window.confirm, then initChat
NewChat ==
  /\ mounted
  /\ \E confirmed \in BOOLEAN :
       IF confirmed
       THEN /\ turns < MaxTurns
            /\ \E ok \in BOOLEAN :
                 /\ initChat(ok)
                 /\ lastEvent' = Event("newChat", "", IF ok THEN "ok" ELSE "failed", <<>>)
            /\ turns' = turns + 1
            /\ Reset
            /\ UNCHANGED mounted
       ELSE /\ lastEvent' = Event("newChat", "", "declined", <<>>)
            /\ UNCHANGED <<messages, isLoading, isBotTyping, chat, mounted,
                           geoSupported, tasks, geo, geoCount, turns,
                           chatInputImage, objectURLs, urlCount, preReset>>
  /\ UNCHANGED callVars

----------------------------------------------------------------------------
(* handleSendMessage *)

\* the guard of handleSendMessage: FALSE when it returns at once
Accepts(text, image, closureIsLoading) ==
  ~((Trim(text) = "" /\ ~image) \/ closureIsLoading)

\* how a call of handleSendMessage ends within the macrotask of the call:
\* "ignored" (the guard returned), "awaiting" (suspended at an await) or
\* "threw" (streamResponse threw and the catch block ran)
Outcome(text, image, closureIsLoading) ==
  IF ~Accepts(text, image, closureIsLoading) THEN "ignored"
  ELSE IF image \/ chat THEN "awaiting"
  ELSE "threw"

\* variant: the catch path does not release the busy flag
CatchFinally_KeepsBusy(prev) ==
  /\ messages' = Append(prev, ErrorMessage)
  /\ isBotTyping' = FALSE
  /\ UNCHANGED isLoading

\* variant: setMessages([errorMessage]) instead of the functional append
CatchFinally_Replaces(prev) ==
  /\ messages' = <<ErrorMessage>>
  /\ isBotTyping' = FALSE
  /\ isLoading' = FALSE

\* the catch and finally blocks
CatchFinally(prev) ==
  /\ messages' = Append(prev, ErrorMessage)
  /\ isBotTyping' = FALSE
  /\ isLoading' = FALSE

\* handleSendMessage up to its first await that suspends.  prev is the
\* store the functional setMessages update applies to, closureIsLoading the
\* isLoading of the render that created this handleSendMessage.
handleSendMessage(prev, text, image, isHidden, closureIsLoading, locatingId) ==
  IF ~Accepts(text, image, closureIsLoading)
  THEN /\ messages' = prev
       /\ UNCHANGED <<isLoading, isBotTyping, tasks, objectURLs, urlCount>>
  ELSE LET shown == IF isHidden THEN prev ELSE Append(prev, UserMessage(text, image))
           \* userMessage?.imageUrl
           imageUrl == IF ~isHidden /\ image THEN createObjectURL ELSE ""
       IN IF image
          THEN \* await fileToBase64(image): a FileReader event
               /\ messages' = shown
               /\ isLoading' = TRUE
               /\ isBotTyping' = TRUE
               /\ tasks' = Append(tasks, Task("encoding", text, image, isHidden,
                                              locatingId, imageUrl))
               /\ IF imageUrl # ""
                  THEN /\ objectURLs' = objectURLs \cup {imageUrl}
                       /\ urlCount' = urlCount + 1
                  ELSE UNCHANGED <<objectURLs, urlCount>>
          ELSE IF ~chat
          THEN \* streamResponse throws "Chat is not initialized."
               /\ CatchFinally(shown)
               /\ UNCHANGED <<tasks, objectURLs, urlCount>>
          ELSE \* sendMessageStream: the request is on its way
               /\ messages' = shown
               /\ isLoading' = TRUE
               /\ isBotTyping' = TRUE
               /\ tasks' = Append(tasks, Task("streaming", text, image, isHidden,
                                              locatingId, imageUrl))
               /\ UNCHANGED <<objectURLs, urlCount>>

\* ChatInput.handleFileChange: the user has picked a file (the file input
\* is disabled while isLoading)
handleFileChange ==
  /\ mounted
  /\ ~isLoading
  /\ turns < MaxTurns
  /\ chatInputImage' = InputImage(createObjectURL)
  /\ objectURLs' = objectURLs \cup {createObjectURL}
  /\ urlCount' = urlCount + 1
  /\ turns' = turns + 1
  /\ lastEvent' = Event("fileChange", "", "chosen", <<createObjectURL>>)
  /\ UNCHANGED <<messages, isLoading, isBotTyping, chat, mounted, geoSupported,
                 tasks, geo, geoCount, preReset, callVars>>

\* ChatInput.removeImage: the button is rendered only when image is set
removeImage ==
  /\ mounted
  /\ chatInputImage.file
  /\ revokeObjectURL(chatInputImage.preview)
  /\ chatInputImage' = NoImage
  /\ lastEvent' = Event("removeImage", "", "removed", <<chatInputImage.preview>>)
  /\ UNCHANGED <<messages, isLoading, isBotTyping, chat, mounted, geoSupported,
                 tasks, geo, geoCount, turns, urlCount, preReset, callVars>>

\* ChatInput.handleSend, onSendMessage = the current handleSendMessage
ChatInputSend ==
  /\ mounted
  /\ \E text \in ChatTexts :
       IF (Trim(text) # "" \/ chatInputImage.file) /\ ~isLoading
       THEN /\ turns < MaxTurns
            /\ handleSendMessage(messages, text, chatInputImage.file, FALSE, isLoading, "")
            /\ Suspended(FALSE, {})
            /\ chatInputImage' = NoImage
            /\ turns' = turns + 1
            /\ lastEvent' = Event("chatInput", "",
                                  Outcome(text, chatInputImage.file, isLoading), <<text>>)
       ELSE /\ lastEvent' = Event("chatInput", "", "ignored", <<>>)
            /\ UNCHANGED <<messages, isLoading, isBotTyping, tasks, turns,
                           chatInputImage, objectURLs, urlCount, preReset>>
  /\ UNCHANGED <<chat, mounted, geoSupported, geo, geoCount, callVars>>

\* fileToBase64 settles: reader.onload resolves, reader.onerror rejects
EncodeDone ==
  \E i \in DOMAIN tasks :
    /\ tasks[i].pc = "encoding"
    /\ \E loaded \in BOOLEAN :
         IF loaded /\ chat
         THEN /\ tasks' = [tasks EXCEPT ![i].pc = "streaming"]
              /\ lastEvent' = Event("fileReader", "", "awaiting", <<>>)
              /\ UNCHANGED <<messages, isLoading, isBotTyping, objectURLs, preReset>>
         ELSE /\ CatchFinally(messages)
              /\ revokeObjectURL(tasks[i].imageUrl)
              /\ tasks' = RemoveAt(tasks, i)
              /\ Returned(i)
              /\ lastEvent' = Event("fileReader", "", "threw", <<>>)
    /\ UNCHANGED <<chat, mounted, geoSupported, geo, geoCount, turns,
                   chatInputImage, urlCount, callVars>>

\* the stream of an outstanding request ends: streamResponse returns the
\* text, or sendMessageStream / the stream iteration throws
StreamDone ==
  \E i \in DOMAIN tasks :
    /\ tasks[i].pc = "streaming"
    /\ \/ /\ lastEvent' = Event("stream", "", "threw", <<>>)
          /\ CatchFinally(messages)
       \/ \E chunks \in Streams :
            /\ lastEvent' = Event("stream", "", "responded", chunks)
            /\ messages' = Append(messages, BotResponse(streamResponse(chunks)))
            /\ isBotTyping' = FALSE
            /\ isLoading' = FALSE
    /\ revokeObjectURL(tasks[i].imageUrl)
    /\ tasks' = RemoveAt(tasks, i)
    /\ Returned(i)
    /\ UNCHANGED <<chat, mounted, geoSupported, geo, geoCount, turns,
                   chatInputImage, urlCount, callVars>>

----------------------------------------------------------------------------
(* Option buttons, handleOptionClick, handleLocationRequest *)

\* <button disabled={isLoading || !isLastMessage}> of ChatMessage, with
\* isLastMessage = (index === messages.length - 1)
OptionDisabled(i) == isLoading \/ i # Len(messages)

\* [...messages].reverse().find(m => m.role === Role.BOT && m.isQuestion)
LastQuestionIndex ==
  LET idx == {i \in DOMAIN messages : messages[i].role = BOT /\ messages[i].isQuestion}
  IN IF idx = {} THEN 0 ELSE CHOOSE i \in idx : \A j \in idx : i >= j

\* lastMessage?.text.includes("find a nearby medical facility")
isLocationQuestion ==
  /\ LastQuestionIndex # 0
  /\ Includes(messages[LastQuestionIndex].text, LocationMarker)

\* variant: the option text alone decides, whatever the last question was
WantsLocation_AnyQuestion(optionText) ==
  Includes(ToLowerCase(optionText), FacilityMarker)

\* the condition of handleOptionClick that routes to handleLocationRequest
WantsLocation(optionText) ==
  Includes(ToLowerCase(optionText), FacilityMarker) /\ isLocationQuestion

\* variant: without geolocation support the text is sent as a hidden prompt
handleLocationRequest_HiddenNoGeo(optionText) ==
  IF ~geoSupported
  THEN /\ handleSendMessage(messages, NoGeoText, FALSE, TRUE, isLoading, "")
       /\ lastEvent' = Event("option", "nogeo", Outcome(NoGeoText, FALSE, isLoading),
                             <<optionText>>)
       /\ UNCHANGED <<geo, geoCount>>
  ELSE /\ geoCount' = geoCount + 1
       /\ messages' = messages \o <<FacilityUserMessage, LocatingMessage(geoCount + 1)>>
       /\ geo' = geo \cup {GeoRequest(LocatingId(geoCount + 1), isLoading)}
       /\ lastEvent' = Event("option", "locate", "locating", <<optionText>>)
       /\ UNCHANGED <<isLoading, isBotTyping, tasks, objectURLs, urlCount>>

\* handleLocationRequest
handleLocationRequest(optionText) ==
  IF ~geoSupported
  THEN /\ handleSendMessage(messages, NoGeoText, FALSE, FALSE, isLoading, "")
       /\ lastEvent' = Event("option", "nogeo", Outcome(NoGeoText, FALSE, isLoading),
                             <<optionText>>)
       /\ UNCHANGED <<geo, geoCount>>
  ELSE /\ geoCount' = geoCount + 1
       /\ messages' = messages \o <<FacilityUserMessage, LocatingMessage(geoCount + 1)>>
       /\ geo' = geo \cup {GeoRequest(LocatingId(geoCount + 1), isLoading)}
       /\ lastEvent' = Event("option", "locate", "locating", <<optionText>>)
       /\ UNCHANGED <<isLoading, isBotTyping, tasks, objectURLs, urlCount>>

\* handleOptionClick
handleOptionClick(optionText) ==
  IF WantsLocation(optionText)
  THEN handleLocationRequest(optionText)
  ELSE /\ handleSendMessage(messages, optionText, FALSE, FALSE, isLoading, "")
       /\ lastEvent' = Event("option", "text", Outcome(optionText, FALSE, isLoading),
                             <<optionText>>)
       /\ UNCHANGED <<geo, geoCount>>

\* a click on option o of the question message at index i; a disabled
\* button dispatches no click
OptionClick ==
  /\ \E i \in DOMAIN messages :
       /\ messages[i].isQuestion
       /\ messages[i].options.defined
       /\ \E o \in DOMAIN messages[i].options.items :
            IF OptionDisabled(i)
            THEN /\ lastEvent' = Event("option", "disabled", "ignored", <<>>)
                 /\ UNCHANGED <<messages, isLoading, isBotTyping, tasks, geo,
                                geoCount, turns, objectURLs, urlCount, preReset>>
            ELSE /\ turns < MaxTurns
                 /\ handleOptionClick(messages[i].options.items[o])
                 /\ Suspended(FALSE, {})
                 /\ turns' = turns + 1
  /\ UNCHANGED <<chat, mounted, geoSupported, chatInputImage, callVars>>

\* the success callback of getCurrentPosition
GeoSuccess ==
  \E g \in geo, c \in Coords :
    LET locationPrompt == LocationPrompt(c[1], c[2])
    IN /\ geo' = geo \ {g}
       /\ handleSendMessage(RemoveId(messages, g.id), locationPrompt,
                            FALSE, TRUE, g.closureIsLoading, g.id)
       /\ Suspended(g.id \in preReset.geo, {g.id})
       /\ lastEvent' = Event("geoSuccess", "", Outcome(locationPrompt, FALSE, g.closureIsLoading),
                             <<g.id, ToString(c[1]), ToString(c[2])>>)
       /\ UNCHANGED <<chat, mounted, geoSupported, geoCount, turns,
                      chatInputImage, callVars>>

\* the error callback of getCurrentPosition
GeoError ==
  \E g \in geo, message \in GeoErrorMessages :
    LET errorPrompt == ErrorPrompt(message)
    IN /\ geo' = geo \ {g}
       /\ handleSendMessage(RemoveId(messages, g.id), errorPrompt,
                            FALSE, TRUE, g.closureIsLoading, g.id)
       /\ Suspended(g.id \in preReset.geo, {g.id})
       /\ lastEvent' = Event("geoError", "", Outcome(errorPrompt, FALSE, g.closureIsLoading),
                             <<g.id, message>>)
       /\ UNCHANGED <<chat, mounted, geoSupported, geoCount, turns,
                      chatInputImage, callVars>>

----------------------------------------------------------------------------

Next ==
  \/ Mount
  \/ NewChat
  \/ handleFileChange
  \/ removeImage
  \/ ChatInputSend
  \/ EncodeDone
  \/ StreamDone
  \/ OptionClick
  \/ GeoSuccess
  \/ GeoError

Spec == Init /\ [][Next]_vars

\* a FileReader started by fileToBase64 fires load or error, and a request
\* sent to the model ends with a stream or a rejection; nothing obliges the
\* user to act
FairSpec == Spec /\ WF_vars(EncodeDone) /\ WF_vars(StreamDone)

----------------------------------------------------------------------------
(* Regular expressions of ChatMessage.tsx, matched the way the JavaScript  *)
(* engine matches them (leftmost match, lazy quantifiers, `.` stopping at  *)
(* a line terminator)                                                      *)

\* the n characters of s from position i on, "" when s does not have them
Peek(s, i, n) == IF i >= 1 /\ i + n - 1 <= Len(s) THEN SubSeq(s, i, i + n - 1) ELSE ""

\* \d
IsDigit(c) == c \in {"0", "1", "2", "3", "4", "5", "6", "7", "8", "9"}

\* the characters `.` does not match
IsLineTerminator(c) == c \in {"\n", "\r"}

RECURSIVE SkipSpaces(_, _)
\* \s* at position i: the first position from i on that holds no white space
SkipSpaces(s, i) ==
  IF i <= Len(s) /\ IsSpace(CharAt(s, i)) THEN SkipSpaces(s, i + 1) ELSE i

RECURSIVE SkipDigits(_, _)
\* \d* at position i: the first position from i on that holds no digit
SkipDigits(s, i) ==
  IF i <= Len(s) /\ IsDigit(CharAt(s, i)) THEN SkipDigits(s, i + 1) ELSE i

\* the first position from `from` on where sub occurs in s, 0 when none
IndexFrom(s, sub, from) ==
  LET idx == {i \in from..(Len(s) - Len(sub) + 1) : SubSeq(s, i, i + Len(sub) - 1) = sub}
  IN IF idx = {} THEN 0 ELSE CHOOSE i \in idx : \A j \in idx : i <= j

\* .*? can span the positions from..to
NoLineTerminator(s, from, to) ==
  \A q \in from..to : ~IsLineTerminator(CharAt(s, q))

NoMatch == [ok |-> FALSE, title |-> "", end |-> 0]

\* the leftmost of the positions idx where a pattern matches, 0 when none
Leftmost(idx) == IF idx = {} THEN 0 ELSE CHOOSE i \in idx : \A j \in idx : i <= j

\* /\d+\.\s+\*\*(.*?):\*\*/ tried at position i: the captured title and the
\* position of the last character of the match.  dotAll is the s flag: with
\* it `.` matches line terminators too.
HeadingMatch(s, i, dotAll) ==
  LET \* d is where \d+ ends, w where \s+ ends, t where ":**" begins
      Title(d, w, t) ==
        IF /\ d > i
           /\ Peek(s, d, 1) = "."
           /\ w > d + 1
           /\ Peek(s, w, 2) = "**"
           /\ t # 0
           /\ dotAll \/ NoLineTerminator(s, w + 2, t - 1)
        THEN [ok |-> TRUE, title |-> SubSeq(s, w + 2, t - 1), end |-> t + 2]
        ELSE NoMatch
      Stars(d, w) == Title(d, w, IndexFrom(s, ":**", w + 2))
      Dot(d) == Stars(d, SkipSpaces(s, d + 1))
  IN Dot(SkipDigits(s, i))

\* the pattern without flags
HeadingAt(s, i) == HeadingMatch(s, i, FALSE)

\* sectionMarker = /\n\s*\d+\.\s+\*\*(.*?):\*\*/ matches at position i
MarkerMatch(s, i, dotAll) ==
  /\ Peek(s, i, 1) = "\n"
  /\ HeadingMatch(s, SkipSpaces(s, i + 1), dotAll).ok

MarkerAt(s, i) == MarkerMatch(s, i, FALSE)

\* the position of the leftmost match of sectionMarker from `from` on, 0
\* when there is none
MarkerFrom(s, from) == Leftmost({i \in from..Len(s) : MarkerAt(s, i)})

\* the length of introMatch[1]: new RegExp(`^(.*?)(?=${sectionMarker.source})`, 's')
\* stops before the first position where sectionMarker matches under the s
\* flag; -1 when introMatch is null
IntroLength(s) == Leftmost({i \in 1..Len(s) : MarkerMatch(s, i, TRUE)}) - 1

\* /\*\*.*?\*\*/ tried at position i: the position of the last character of
\* the match, 0 when it does not match
BoldEnd(s, i) ==
  LET Closing(j) ==
        IF Peek(s, i, 2) = "**" /\ j # 0 /\ NoLineTerminator(s, i + 2, j - 1)
        THEN j + 1 ELSE 0
  IN Closing(IndexFrom(s, "**", i + 2))

\* /\[(.*?)\]\((.*?)\)/ tried at position i: the position of "](" and of
\* the closing ")"
LinkAt(s, i) ==
  LET Link(k, m) ==
        IF /\ Peek(s, i, 1) = "["
           /\ k # 0
           /\ NoLineTerminator(s, i + 1, k - 1)
           /\ m # 0
           /\ NoLineTerminator(s, k + 2, m - 1)
        THEN [ok |-> TRUE, mid |-> k, end |-> m]
        ELSE [ok |-> FALSE, mid |-> 0, end |-> 0]
      Target(k) == Link(k, IndexFrom(s, ")", k + 2))
  IN Target(IndexFrom(s, "](", i + 1))

\* /(\*\*.*?\*\*|\[.*?\]\(.*?\))/ tried at position i
SpanEnd(s, i) ==
  LET Either(bold) == IF bold # 0 THEN bold ELSE LinkAt(s, i).end
  IN Either(BoldEnd(s, i))

\* the position of the leftmost span from `from` on, 0 when there is none
SpanFrom(s, from) == Leftmost({i \in from..Len(s) : SpanEnd(s, i) # 0})

----------------------------------------------------------------------------
(* parseBotResponse *)

RECURSIVE SplitAtHeadings(_, _)
\* remainingText.split(/\n\s*(?=\d+\.\s+\*\*(.*?):\*\*)/g) from position p
\* on: the pieces between the separators, each separator followed by the
\* title its lookahead captured
SplitAtHeadings(s, p) ==
  LET \* i is where the separator begins, h where its lookahead begins
      Pieces(i, h) ==
        IF i = 0 THEN <<SubSeq(s, p, Len(s))>>
        ELSE <<SubSeq(s, p, i - 1), HeadingAt(s, h).title>> \o SplitAtHeadings(s, h)
      Separator(i) == Pieces(i, SkipSpaces(s, i + 1))
  IN Separator(MarkerFrom(s, p))

Section(title, content) == [title |-> title, content |-> content]

RECURSIVE Sections(_)
\* parts.forEach: a part that starts with a heading and has a title and a
\* content becomes a section
Sections(parts) ==
  IF parts = <<>> THEN <<>>
  ELSE LET Pushed(titleMatch, content) ==
             IF titleMatch.ok /\ titleMatch.title # "" /\ content # ""
             THEN <<Section(titleMatch.title, content)>> ELSE <<>>
           ForEach(part, titleMatch) ==
             Pushed(titleMatch, Trim(SubSeq(part, titleMatch.end + 1, Len(part))))
       IN ForEach(Head(parts), HeadingAt(Head(parts), 1)) \o Sections(Tail(parts))

ParsedResponse(intro, sections, outro) ==
  [t |-> "parsed", intro |-> intro, sections |-> sections, outro |-> outro]

\* intro = introMatch[1].trim(), "" when introMatch is null
Intro(text, introLength) ==
  IF introLength >= 0 THEN Trim(SubSeq(text, 1, introLength)) ELSE ""

\* remainingText = text.substring(introMatch[1].length), text when
\* introMatch is null
RemainingText(text, introLength) ==
  IF introLength >= 0 THEN SubSeq(text, introLength + 1, Len(text)) ELSE text

\* parts = remainingText.split(...).filter(part => part && part.trim() !== '')
Parts(remainingText) ==
  SelectSeq(SplitAtHeadings(remainingText, 1), LAMBDA part : Trim(part) # "")

\* lastSectionText: title and content of the last section glued together
LastSectionText(sections) ==
  IF Len(sections) > 0
  THEN "**" \o sections[Len(sections)].title \o ":**" \o sections[Len(sections)].content
  ELSE ""

\* outro: what follows the last occurrence of lastSectionText, unless it
\* holds a section marker
Outro(text, lastSectionText) ==
  LET lastSectionFullMarker == LastIndexOf(text, lastSectionText)
      potentialOutro ==
        Trim(Substring(text, lastSectionFullMarker + Len(lastSectionText), Len(text)))
  IN IF /\ lastSectionFullMarker > -1
        /\ potentialOutro # ""
        /\ MarkerFrom(potentialOutro, 1) = 0
     THEN potentialOutro ELSE ""

parseBotResponse(text) ==
  IF MarkerFrom(text, 1) = 0 THEN NullJson
  ELSE LET introLength == IntroLength(text)
           sections == Sections(Parts(RemainingText(text, introLength)))
       IN ParsedResponse(Intro(text, introLength), sections,
                         Outro(text, LastSectionText(sections)))

----------------------------------------------------------------------------
(* FormattedText *)

RECURSIVE SplitAtSpans(_, _)
\* text.split(/(\*\*.*?\*\*|\[.*?\]\(.*?\))/g) from position p on: the text
\* between the spans alternating with the spans
SplitAtSpans(s, p) ==
  LET \* the span begins at i and ends at end
      Pieces(i, end) ==
        IF i = 0 THEN <<SubSeq(s, p, Len(s))>>
        ELSE <<SubSeq(s, p, i - 1), SubSeq(s, i, end)>> \o SplitAtSpans(s, end + 1)
      Span(i) == Pieces(i, SpanEnd(s, i))
  IN Span(SpanFrom(s, p))

\* what one part renders as
PlainRun(text) == [kind |-> "plain", text |-> text, href |-> ""]

StrongRun(text) == [kind |-> "strong", text |-> text, href |-> ""]

LinkRun(text, href) == [kind |-> "link", text |-> text, href |-> href]

\* part.slice(2, -2)
Slice2(part) == IF Len(part) - 2 > 2 THEN SubSeq(part, 3, Len(part) - 2) ELSE ""

\* the callback of parts.map
RenderPart(part) ==
  LET \* linkMatch = part.match(...) found at position i, Len(part) + 1
      \* when there is none
      Rendered(i, linkMatch) ==
        IF Peek(part, 1, 2) = "**" /\ Peek(part, Len(part) - 1, 2) = "**"
        THEN StrongRun(Slice2(part))
        ELSE IF i <= Len(part)
        THEN LinkRun(SubSeq(part, i + 1, linkMatch.mid - 1),
                     SubSeq(part, linkMatch.mid + 2, linkMatch.end - 1))
        ELSE PlainRun(part)
      Match(i) == Rendered(i, LinkAt(part, i))
  IN Match(CHOOSE i \in 1..(Len(part) + 1) :
             /\ i = Len(part) + 1 \/ LinkAt(part, i).ok
             /\ \A j \in 1..(i - 1) : ~LinkAt(part, j).ok)

Runs(runs) == [t |-> "runs", runs |-> runs]

FormattedText(text) ==
  LET parts == SplitAtSpans(text, 1)
  IN Runs([k \in 1..Len(parts) |-> RenderPart(parts[k])])

----------------------------------------------------------------------------
(* The pure functions examined on their own: Init draws a function and an  *)
(* input text, the only step is the call                                   *)

\* pieces put together into one input text
MaxTokens == 4

RECURSIVE Texts(_, _)
\* the concatenations of at most n tokens
Texts(tokens, n) ==
  IF n = 0 THEN {""}
  ELSE LET shorter == Texts(tokens, n - 1)
       IN shorter \cup {t \o tok : t \in shorter, tok \in tokens}

JsonDocuments ==
  { QuestionJson, FollowUpJson, EmptyOptionsJson, NumberOptionsJson, TextOptionsJson,
    MissingOptionsJson, MissingQuestionJson, NumberQuestionJson, EmptyQuestionJson,
    OtherShapeJson, UnparsableJson }

\* response texts for cleanAndParseJson: a document in prose, and texts
\* without a document
ClassifierTexts ==
  {before \o doc \o after :
     before \in {"", "Sure. ", "Here it is:\n", "{ "},
     doc \in JsonDocuments,
     after \in {"", " Thanks.", "\nDone.", " }"}}
  \cup {"", "Rest and hydrate.", "} then {", "{", "}", "{}"}

\* the scenario advice: four lines, a heading at the start of each
FourLineAdvice ==
  "1. **Likely Condition:** This could be tension headache.\n2. **What to Do Now:** Rest and hydrate.\n3. **Diet & Lifestyle:** Reduce caffeine.\n4. **When to See a Doctor:** - Fever over 102F"

\* the same advice laid out as the system instruction asks for it
FourLineAdviceSpaced ==
  "1.  **Likely Condition:** This could be tension headache.\n2.  **What to Do Now:** Rest and hydrate.\n3.  **Diet & Lifestyle:** Reduce caffeine.\n4.  **When to See a Doctor:** - Fever over 102F"

FourLineTexts == {FourLineAdvice, FourLineAdviceSpaced}

SegmenterTokens == {"1. **A:**", "2. **B:**", "3. **C", " x", "\n", "Hi"}

\* texts for parseBotResponse
SegmenterTexts == Texts(SegmenterTokens, MaxTokens) \cup FourLineTexts \cup {AdviceText}

FormatterTokens == {"**", "*", "a", "[", "[x](u)", "\n"}

\* texts for FormattedText
FormatterTexts == Texts(FormatterTokens, MaxTokens)

PureFunctions == {"cleanAndParseJson", "parseBotResponse", "FormattedText"}

InputsOf(f) ==
  CASE f = "cleanAndParseJson" -> ClassifierTexts
    [] f = "parseBotResponse" -> SegmenterTexts
    [] f = "FormattedText" -> FormatterTexts

PureInit ==
  /\ AppInit
  /\ geoSupported = FALSE
  /\ fn \in PureFunctions
  /\ input \in InputsOf(fn)
  /\ output = NotCalled

\* the components are not mounted while a function is examined
AppUnchanged ==
  UNCHANGED <<messages, isLoading, isBotTyping, chat, mounted, geoSupported,
              tasks, geo, geoCount, turns, lastEvent, chatInputImage,
              objectURLs, urlCount, preReset, fn, input>>

CallCleanAndParseJson ==
  /\ fn = "cleanAndParseJson"
  /\ output = NotCalled
  /\ output' = cleanAndParseJson(input)
  /\ AppUnchanged

CallParseBotResponse ==
  /\ fn = "parseBotResponse"
  /\ output = NotCalled
  /\ output' = parseBotResponse(input)
  /\ AppUnchanged

CallFormattedText ==
  /\ fn = "FormattedText"
  /\ output = NotCalled
  /\ output' = FormattedText(input)
  /\ AppUnchanged

PureNext ==
  \/ CallCleanAndParseJson
  \/ CallParseBotResponse
  \/ CallFormattedText

PureSpec == PureInit /\ [][PureNext]_vars

----------------------------------------------------------------------------
(* Properties *)

\* the last step ran handleSendMessage: from the chat input, from an option
\* click that was not routed to geolocation, or from a geolocation callback
IsSubmission(e) ==
  \/ e.handler \in {"chatInput", "geoSuccess", "geoError"}
  \/ e.handler = "option" /\ e.route \in {"text", "nogeo"}

\* the messages of msgs after its first n
Added(msgs, n) == SubSeq(msgs, n + 1, Len(msgs))

IsPrefix(a, b) == Len(a) <= Len(b) /\ SubSeq(b, 1, Len(a)) = a

\* C1: in every reachable state at most one model request (a pending
\* streamResponse call) is outstanding.
C1_AtMostOneRequest == Cardinality(Outstanding) <= 1

\* C2: a submission made while a model request is in flight is a no-op: the
\* message store is unchanged and no further streamResponse call is issued.
C2_SubmitWhileInFlightIsNoop ==
  [][(Outstanding # {} /\ IsSubmission(lastEvent'))
       => (messages' = messages /\ tasks' = tasks)]_vars

\* C3: once the model call of a submission has resolved in any way (a
\* response, a thrown or rejected error, an empty or blank stream), isLoading
\* and isBotTyping are false.
C3_BusyFlagReleased ==
  [][(lastEvent'.handler = "stream" \/ lastEvent'.outcome = "threw")
       => (~isLoading' /\ ~isBotTyping')]_vars

\* C3 witness: a blank stream has resolved and the busy flag is released
C3_Witness ==
  /\ lastEvent.handler = "stream"
  /\ lastEvent.outcome = "responded"
  /\ lastEvent.arg = <<" ", "">>
  /\ ~isLoading

\* C4: when the model call or the image encoding of a submission throws or
\* rejects, exactly one SYSTEM message "Sorry, something went wrong. Please
\* try again." is appended, no BOT message is appended, the messages already
\* stored are unchanged and the input is free for a resubmission.
C4_FailureAppendsOneSystemMessage ==
  [][lastEvent'.outcome = "threw"
       => LET added == Added(messages', Len(messages))
          IN /\ IsPrefix(messages, messages')
             /\ Len(added) >= 1
             /\ added[Len(added)].role = SYSTEM
             /\ added[Len(added)].text = "Sorry, something went wrong. Please try again."
             /\ Cardinality({k \in DOMAIN added : added[k].role = SYSTEM}) = 1
             /\ \A k \in DOMAIN added : added[k].role # BOT
             /\ ~isLoading']_vars

\* C4 witness: a model call failed after the conversation had started
C4_Witness ==
  /\ lastEvent.handler = "stream"
  /\ lastEvent.outcome = "threw"
  /\ Len(messages) >= 3
  /\ messages[Len(messages)].role = SYSTEM

\* the option buttons of message i exist and are enabled
OptionsActionable(i) ==
  /\ messages[i].isQuestion
  /\ messages[i].options.defined
  /\ messages[i].options.items # <<>>
  /\ ~OptionDisabled(i)

\* C5: the option buttons of a question are actionable only while that
\* question is the most recent message and no request is in flight.
C5_ActionableOnlyLatestAndIdle ==
  \A i \in DOMAIN messages :
    OptionsActionable(i) => (i = Len(messages) /\ Outstanding = {})

\* C5, the part about superseded questions: selecting an option of a
\* question that is not the most recent message changes neither the store
\* nor the requests
C5_SupersededOptionsInert ==
  [][(lastEvent'.handler = "option" /\ lastEvent'.route # "disabled")
       => /\ messages[Len(messages)].isQuestion
          /\ \E o \in DOMAIN messages[Len(messages)].options.items :
               messages[Len(messages)].options.items[o] = lastEvent'.arg[1]]_vars

\* a streamResponse call reached the model in the last step
CallIssued ==
  \/ /\ Len(tasks') > Len(tasks)
     /\ tasks'[Len(tasks')].pc = "streaming"
  \/ \E i \in DOMAIN tasks :
       /\ i \in DOMAIN tasks'
       /\ tasks[i].pc = "encoding"
       /\ tasks'[i].pc = "streaming"

\* the last step had the effect of a free-text submission of text (no
\* image) from the chat input: a USER message with that text is appended and
\* the text is sent to the model as a visible prompt
SubmittedAsFreeText(text) ==
  /\ Len(messages') = Len(messages) + 1
  /\ IsPrefix(messages, messages')
  /\ messages'[Len(messages')].role = USER
  /\ messages'[Len(messages')].text = text
  /\ messages'[Len(messages')].imageUrl = ""
  /\ Len(tasks') = Len(tasks) + 1
  /\ IsPrefix(tasks, tasks')
  /\ tasks'[Len(tasks')].pc = "streaming"
  /\ tasks'[Len(tasks')].text = text
  /\ ~tasks'[Len(tasks')].isHidden
  /\ isLoading'
  /\ geo' = geo

\* what selecting optionText amounts to when it is handled as free text: a
\* blank text is dropped by the guard like a blank chat input
HandledAsFreeText(optionText) ==
  IF Trim(optionText) = ""
  THEN UNCHANGED <<messages, tasks, isLoading, isBotTyping, geo>>
  ELSE SubmittedAsFreeText(optionText)

\* the last step sent prompt text to the model and showed nothing of it:
\* the store gained no message
SubmittedHidden ==
  /\ Len(tasks') = Len(tasks) + 1
  /\ IsPrefix(tasks, tasks')
  /\ tasks'[Len(tasks')].pc = "streaming"
  /\ tasks'[Len(tasks')].isHidden
  /\ Len(messages') <= Len(messages)
  /\ \A k \in DOMAIN messages' : \E j \in DOMAIN messages : messages'[k] = messages[j]

\* the selected option asks for a facility and the question it belongs to,
\* the most recent message, is the fixed follow-up question
FacilitySelected(optionText) ==
  /\ Includes(ToLowerCase(optionText), "find a facility")
  /\ Includes(messages[Len(messages)].text, "find a nearby medical facility")

\* the last step started a geolocation request and sent nothing to the model
StartedGeolocation ==
  /\ Cardinality(geo') = Cardinality(geo) + 1
  /\ geo \subseteq geo'
  /\ tasks' = tasks
  /\ ~CallIssued

Completed == {i \in DOMAIN tasks : tasks' = RemoveAt(tasks, i)}

\* no message of msgs is the locating message id
LocatingGone(msgs, id) == \A k \in DOMAIN msgs : msgs[k].id # id

\* C7: when the geolocation request fails with an error, a hidden prompt
\* containing the error's message text is sent to the model, and the
\* locating message is out of the store before the assistant turn produced
\* by that prompt is appended.
C7_GeoErrorHiddenPrompt ==
  [][/\ lastEvent'.handler = "geoError"
          => /\ SubmittedHidden
             /\ Includes(tasks'[Len(tasks')].text, lastEvent'.arg[2])
             /\ LocatingGone(messages', lastEvent'.arg[1])
     /\ lastEvent'.handler = "stream"
          => \A i \in Completed :
               Includes(tasks[i].text, "an error occurred")
                 => /\ LocatingGone(messages, tasks[i].locatingId)
                    /\ LocatingGone(messages', tasks[i].locatingId)]_vars

\* C7 witness: the error callback ran; its prompt is on its way and the
\* locating message is gone
C7_Witness ==
  /\ lastEvent.handler = "geoError"
  /\ \E i \in DOMAIN tasks :
       /\ tasks[i].isHidden
       /\ Includes(tasks[i].text, "User denied Geolocation")
  /\ \A k \in DOMAIN messages : messages[k].text # LocatingText

\* the last step is a facility lookup that failed: the error callback of
\* the geolocation request, or no geolocation support in the browser
LookupFailed(e) ==
  \/ e.handler = "geoError"
  \/ e.handler = "option" /\ e.route = "nogeo"

\* C8 as stated: every kind of facility-lookup failure sends the failure
\* reason to the model as a hidden prompt and appends no USER message.
C8_LookupFailureIsHidden ==
  [][LookupFailed(lastEvent') => SubmittedHidden]_vars

\* C8 amended: a geolocation error (denied, timeout, position unavailable)
\* sends its reason as a hidden prompt and appends no USER message; a browser
\* without geolocation support sends the reason as a visible USER message.
C8_LookupFailureRouting ==
  [][/\ lastEvent'.handler = "geoError"
          => /\ SubmittedHidden
             /\ Includes(tasks'[Len(tasks')].text, lastEvent'.arg[2])
     /\ (lastEvent'.handler = "option" /\ lastEvent'.route = "nogeo")
          => SubmittedAsFreeText("My browser doesn't support geolocation, so I cannot share my location.")]_vars

\* C8 witness: without geolocation support the reason was appended as a
\* USER message and sent to the model
C8_Witness ==
  /\ lastEvent.handler = "option"
  /\ lastEvent.route = "nogeo"
  /\ messages[Len(messages)].role = USER
  /\ messages[Len(messages)].text = NoGeoText
  /\ \E i \in DOMAIN tasks : tasks[i].text = NoGeoText /\ ~tasks[i].isHidden

\* C9: on successful geolocation a hidden prompt embedding the latitude and
\* the longitude is sent to the model, no USER message with the coordinates
\* is appended, and the locating message is out of the store before the
\* model's result is appended.
C9_GeoSuccessHiddenPrompt ==
  [][/\ lastEvent'.handler = "geoSuccess"
          => /\ SubmittedHidden
             /\ Includes(tasks'[Len(tasks')].text, "Latitude: " \o lastEvent'.arg[2])
             /\ Includes(tasks'[Len(tasks')].text, "Longitude: " \o lastEvent'.arg[3])
             /\ LocatingGone(messages', lastEvent'.arg[1])
     /\ lastEvent'.handler = "stream"
          => \A i \in Completed :
               Includes(tasks[i].text, "shared their location")
                 => /\ LocatingGone(messages, tasks[i].locatingId)
                    /\ LocatingGone(messages', tasks[i].locatingId)]_vars

\* C9 witness: the model answered the location prompt and the store holds
\* no locating message
C9_Witness ==
  /\ lastEvent.handler = "stream"
  /\ lastEvent.outcome = "responded"
  /\ geoCount = 1
  /\ geo = {}
  /\ tasks = <<>>
  /\ messages[Len(messages)].role = BOT
  /\ \E k \in DOMAIN messages : messages[k].text = FacilityUserText
  /\ \A k \in DOMAIN messages : messages[k].text # LocatingText

\* C10: a confirmed New chat leaves exactly the greeting (or the
\* initialization-error message) in the store with the busy flag false; a
\* declined one changes neither the store nor any flag.
C10_NewChatResets ==
  [][lastEvent'.handler = "newChat"
       => CASE lastEvent'.outcome = "ok" ->
                 /\ Len(messages') = 1
                 /\ messages'[1].role = BOT
                 /\ messages'[1].text = GreetingText
                 /\ ~isLoading'
            [] lastEvent'.outcome = "failed" ->
                 /\ Len(messages') = 1
                 /\ messages'[1].role = SYSTEM
                 /\ messages'[1].text = InitErrorText
                 /\ ~isLoading'
            [] OTHER ->
                 UNCHANGED <<messages, isLoading, isBotTyping, tasks, geo>>]_vars

\* C10 witness: a conversation was under way and a confirmed New chat left
\* only the greeting
C10_Witness ==
  /\ lastEvent.handler = "newChat"
  /\ lastEvent.outcome = "ok"
  /\ turns >= 2
  /\ messages = <<GreetingMessage>>

\* the store is what a failed initialization left, with no restart since
InitFailedState ==
  /\ Len(messages) >= 1
  /\ messages[1].role = SYSTEM
  /\ messages[1].text = InitErrorText

\* C11: chat initialization ends with exactly one message, the BOT greeting
\* on success or one SYSTEM error message on failure, with the busy flag
\* released; after a failed initialization no submission reaches a model
\* session until the user restarts.
C11_InitializationOutcome ==
  [][/\ (lastEvent'.handler \in {"mount", "newChat"} /\ lastEvent'.outcome = "ok")
          => /\ Len(messages') = 1
             /\ messages'[1].role = BOT
             /\ messages'[1].text = GreetingText
             /\ ~isLoading'
     /\ (lastEvent'.handler \in {"mount", "newChat"} /\ lastEvent'.outcome = "failed")
          => /\ Len(messages') = 1
             /\ messages'[1].role = SYSTEM
             /\ ~isLoading'
     /\ InitFailedState => ~CallIssued]_vars

\* C12: every message in the store has a non-empty options sequence if and
\* only if its isQuestion is true.
C12_OptionsIffQuestion ==
  \A k \in DOMAIN messages :
    (messages[k].options.defined /\ messages[k].options.items # <<>>)
      <=> messages[k].isQuestion

\* the USER messages of msgs, in order
UserMessages(msgs) == SelectSeq(msgs, LAMBDA m : m.role = USER)

\* C14: a visible submission of text T made while idle appends exactly the
\* USER message T; a model answer that is a valid question {Q, O} appends
\* exactly one BOT message with text Q, options O and isQuestion true; a
\* hidden submission adds no USER message, only the BOT or SYSTEM message.
C14_TurnGrowsStore ==
  [][/\ (lastEvent'.handler = "chatInput" /\ lastEvent'.outcome = "awaiting" /\ ~isLoading)
          => /\ Len(messages') = Len(messages) + 1
             /\ IsPrefix(messages, messages')
             /\ messages'[Len(messages')].role = USER
             /\ messages'[Len(messages')].text = lastEvent'.arg[1]
     /\ (lastEvent'.handler = "stream" /\ lastEvent'.outcome = "responded")
          => /\ Len(messages') = Len(messages) + 1
             /\ IsPrefix(messages, messages')
             /\ messages'[Len(messages')].role = BOT
             /\ lastEvent'.arg = <<FollowUpJson>>
                  => /\ messages'[Len(messages')].text = "I hope this initial guidance is helpful. Should I continue to monitor, or would you like me to help you find a nearby medical facility for a professional opinion?"
                     /\ messages'[Len(messages')].options.items
                          = <<"I'll follow the advice for now.", "Help me find a facility.">>
                     /\ messages'[Len(messages')].isQuestion
             /\ lastEvent'.arg = <<"Sure. ", DecoyJson>>
                  => /\ messages'[Len(messages')].text = "What would you like to do next?"
                     /\ messages'[Len(messages')].options.items
                          = <<"FIND A FACILITY near me", " ">>
                     /\ messages'[Len(messages')].isQuestion
     /\ lastEvent'.handler \in {"geoSuccess", "geoError"}
          => /\ UserMessages(messages') = UserMessages(messages)
             /\ Len(messages') <= Len(messages)
                  \/ messages'[Len(messages')].role = SYSTEM]_vars

\* C14 witness: the user's text was answered by a question wrapped in prose;
\* the store holds the greeting, the USER text and the BOT question
C14_Witness ==
  /\ lastEvent.handler = "stream"
  /\ lastEvent.arg = <<"Sure. ", DecoyJson>>
  /\ Len(messages) = 3
  /\ messages[2].role = USER
  /\ messages[2].text = "Hi"
  /\ messages[3].role = BOT
  /\ messages[3].isQuestion

\* msgs[k] is a locating message
IsLocating(m) == m.role = BOT /\ m.text = LocatingText

\* C18: no reachable state has a locating message followed by a later
\* message: the locating message is removed before the next real turn.
C18_LocatingIsLast ==
  \A k \in DOMAIN messages : IsLocating(messages[k]) => k = Len(messages)

\* C19: the store only grows by appending, except that a geolocation
\* callback removes the locating message and an initialization replaces the
\* store; messages already in the store are never modified.
C19_AppendOnly ==
  [][\/ IsPrefix(messages, messages')
     \/ /\ lastEvent'.handler \in {"geoSuccess", "geoError"}
        /\ \E k \in DOMAIN messages :
             /\ IsLocating(messages[k])
             /\ IsPrefix(RemoveAt(messages, k), messages')
     \/ /\ lastEvent'.handler \in {"mount", "newChat"}
        /\ lastEvent'.outcome \in {"ok", "failed"}
        /\ Len(messages') = 1]_vars

\* C19 witness: a geolocation callback has removed the locating message and
\* the rest of the conversation is still there
C19_Witness ==
  /\ lastEvent.handler \in {"geoSuccess", "geoError"}
  /\ Len(messages) >= 4
  /\ messages[1].text = GreetingText
  /\ \A k \in DOMAIN messages : ~IsLocating(messages[k])

\* the strings URL.createObjectURL can have returned
ObjectURLNames == {"blob:" \o ToString(n) : n \in 1..MaxTurns}

\* C20: every temporary image URL the application creates (the preview URL
\* of the chat input, the URL of the message made at send) is eventually
\* revoked on every path: once a live URL is no longer the preview shown in
\* the chat input, it is revoked at some later point.
C20_UrlsEventuallyRevoked ==
  \A u \in ObjectURLNames :
    (u \in objectURLs /\ u # chatInputImage.preview) ~> (u \notin objectURLs)

\* the function under examination has returned
Called(f) == fn = f /\ output.t # "not called"

\* what C13 says the classifier returns for text
Classification(text) ==
  LET jsonStart == IndexOf(text, "{")
      jsonEnd == LastIndexOf(text, "}")
      parsed == JSONParse(Substring(text, jsonStart, jsonEnd + 1))
  IN IF jsonStart = -1 \/ jsonEnd < jsonStart THEN NullJson
     ELSE IF /\ parsed.t = "object"
             /\ parsed.question.t = "string"
             /\ parsed.question.v # ""
             /\ parsed.options.t = "array"
             /\ parsed.options.elem = "string"
     THEN parsed
     ELSE NullJson

\* C13: cleanAndParseJson returns the parsed question and options for every
\* text whose substring from the first "{" to the last "}" parses as an
\* object with a non-empty string question and an options sequence of
\* strings, and null for every other text; it never throws.
C13_ClassifierTotal ==
  Called("cleanAndParseJson")
    => /\ output.t \in {"null", "object"}
       /\ output = Classification(input)

\* the titles of sections, in order
Titles(sections) == [k \in 1..Len(sections) |-> sections[k].title]

\* C15: for an advice text of four consecutive lines, each starting with a
\* heading "<N>. **<Title>:**" followed by content, the first heading at
\* the very start of the text, parseBotResponse returns four sections with
\* those titles in order, an empty intro and an empty outro.
C15_FourLinesFourSections ==
  (Called("parseBotResponse") /\ input \in FourLineTexts)
    => /\ output.t = "parsed"
       /\ Titles(output.sections) = <<"Likely Condition", "What to Do Now",
                                      "Diet & Lifestyle", "When to See a Doctor">>
       /\ output.intro = ""
       /\ output.outro = ""

\* the positions of text where a heading "<N>. **<Title>:**" starts a line
LineStartHeadings(text) ==
  {i \in 1..Len(text) : (i = 1 \/ CharAt(text, i - 1) = "\n") /\ HeadingAt(text, i).ok}

RECURSIVE HeadedChunkTitles(_, _)
\* the titles of the headed chunks of text from position `from` on: a chunk
\* runs from a line-start heading to the next one and counts when its title
\* and its trimmed content are not empty
HeadedChunkTitles(text, from) ==
  LET starts == {i \in LineStartHeadings(text) : i >= from}
      i == CHOOSE i \in starts : \A j \in starts : i <= j
      later == {j \in starts : j > i}
      next == IF later = {} THEN Len(text) + 1
              ELSE CHOOSE j \in later : \A k \in later : j <= k
      heading == HeadingAt(text, i)
      content == Trim(SubSeq(text, heading.end + 1, next - 1))
  IN IF starts = {} THEN <<>>
     ELSE (IF heading.title # "" /\ content # "" THEN <<heading.title>> ELSE <<>>)
          \o HeadedChunkTitles(text, next)

\* C16: parseBotResponse returns null exactly when the text has no
\* line-start heading "<N>. **<Title>:**"; for a text with at least one
\* such heading, a single heading on the first line included, the result is
\* not null and its sections are the headed chunks in original order.
C16_NullIffNoHeading ==
  Called("parseBotResponse")
    => /\ output.t = "null" <=> LineStartHeadings(input) = {}
       /\ output.t = "parsed" => Titles(output.sections) = HeadedChunkTitles(input, 1)

RECURSIVE Reconstruct(_)
\* the text of the runs with the delimiters of the bold and link spans put
\* back
Reconstruct(runs) ==
  IF runs = <<>> THEN ""
  ELSE LET run == Head(runs)
       IN (CASE run.kind = "plain" -> run.text
             [] run.kind = "strong" -> "**" \o run.text \o "**"
             [] run.kind = "link" -> "[" \o run.text \o "](" \o run.href \o ")")
          \o Reconstruct(Tail(runs))

\* C17: FormattedText loses no text: the contents of the runs, with only
\* the delimiters of recognized spans stripped, reproduce the input; a text
\* without a recognized span (no markup, or unbalanced markup such as a
\* lone "**") comes out unchanged as a single plain run.
C17_FormatterLosesNoText ==
  Called("FormattedText")
    => /\ Reconstruct(output.runs) = input
       /\ SpanFrom(input, 1) = 0 => output.runs = <<PlainRun(input)>>

----------------------------------------------------------------------------
(* The busy flag and New chat while requests are pending *)

\* C21: the busy flag is accurate while work is pending: in every reachable
\* state in which a model request is outstanding, isLoading is true, under
\* any interleaving of submissions, geolocation callbacks and confirmed New
\* chat actions.
C21_BusyWhileOutstanding == Outstanding # {} => isLoading

\* the suspended calls that returned in this step
ReturnedCalls ==
  {i \in DOMAIN tasks : /\ tasks' = RemoveAt(tasks, i)
                        /\ preReset'.tasks = RemoveAt(preReset.tasks, i)}

\* C22: a New chat isolates conversations: a request issued before a
\* confirmed New chat appends no BOT or SYSTEM message to the store after
\* that reset, and neither does anything else begun before it (the callback
\* of an earlier geolocation request, or the request such a callback
\* issues): the store after a reset only receives messages caused by
\* actions taken after the reset.
C22_NewChatIsolates ==
  [][/\ lastEvent'.handler \in {"stream", "fileReader"}
          => \A i \in ReturnedCalls : preReset.tasks[i] => messages' = messages
     /\ (lastEvent'.handler \in {"geoSuccess", "geoError"}
            /\ lastEvent'.arg[1] \in preReset.geo)
          => messages' = messages]_vars

====
